---- MODULE Spec2Model ----
(***************************************************************************)
(* End-of-day sales report job (src/main.js): run() reads a CSV file,      *)
(* indexes and validates the header, folds every data line through         *)
(* parseOrderRow -> calculateDiscountRate -> applyRowToAggregates, and     *)
(* formats the report.                                                     *)
(*                                                                         *)
(* Representation.                                                         *)
(*  - A JavaScript string is a sequence of one-character strings, so that  *)
(*    trim, split, toUpperCase, startsWith, parseInt, parseFloat and the   *)
(*    "|" key concatenation are computed character by character.           *)
(*  - Numbers are exact: unitPrice is held in hundredths (PriceScale), the *)
(*    discount rate in hundredths (RateScale), and every amount (gross,    *)
(*    net, discounted) in ten-thousandths (PriceScale * RateScale).        *)
(*    IEEE-754 rounding of the JavaScript doubles is not modelled.         *)
(*  - A JavaScript object used as a map (byRegion, byCustomer) is the      *)
(*    sequence of its entries in insertion order, which is the order       *)
(*    Object.keys gives for keys that are not array indices.               *)
(*  - A warning "row " + n + " " + message is the tuple of its pieces      *)
(*    [row, msg, arg]; a report line is a record tagged with the push      *)
(*    that produced it.                                                    *)
(***************************************************************************)
EXTENDS Integers, Sequences, FiniteSets, TLC

VARIABLES file, pc, lines, idx, expectedColumns, k, row, amounts, agg, reportLines, exitCode

vars == <<file, pc, lines, idx, expectedColumns, k, row, amounts, agg, reportLines, exitCode>>

(***************************************************************************)
(* Bounds of the model.                                                    *)
(***************************************************************************)
\* Longest body (lines after the header) of a file of the themed corpora.
MaxRows == 3
\* Longest body of a file of the long corpus (SpecLong).
MaxLongRows == 11

(***************************************************************************)
(* Characters and strings.                                                 *)
(***************************************************************************)
Digits == <<"0", "1", "2", "3", "4", "5", "6", "7", "8", "9">>
Lower == <<"a", "b", "c", "d", "e", "f", "g", "h", "i", "j", "k", "l", "m",
           "n", "o", "p", "q", "r", "s", "t", "u", "v", "w", "x", "y", "z">>
Upper == <<"A", "B", "C", "D", "E", "F", "G", "H", "I", "J", "K", "L", "M",
           "N", "O", "P", "Q", "R", "S", "T", "U", "V", "W", "X", "Y", "Z">>
\* The characters of the model in UTF-16 code unit order.
CodeOrder == <<"\t", " ", "(", ")", "+", ",", "-", ".">> \o Digits \o Upper \o Lower \o <<"|">>
WhiteSpace == {"\t", " "}

IndexIn(c, table) == CHOOSE i \in 1..Len(table) : table[i] = c
IsIn(c, table) == \E i \in 1..Len(table) : table[i] = c
CharCode(c) == IndexIn(c, CodeOrder)
IsDigit(c) == IsIn(c, Digits)
DigitValue(c) == IndexIn(c, Digits) - 1

\* String.prototype.trim
RECURSIVE TrimStart(_)
TrimStart(s) == IF s # <<>> /\ Head(s) \in WhiteSpace THEN TrimStart(Tail(s)) ELSE s
RECURSIVE TrimEnd(_)
TrimEnd(s) == IF s # <<>> /\ s[Len(s)] \in WhiteSpace THEN TrimEnd(SubSeq(s, 1, Len(s) - 1)) ELSE s
Trim(s) == TrimEnd(TrimStart(s))

\* String.prototype.toUpperCase
ToUpperCase(s) == [i \in 1..Len(s) |-> IF IsIn(s[i], Lower) THEN Upper[IndexIn(s[i], Lower)] ELSE s[i]]

\* String.prototype.startsWith
StartsWith(s, p) == Len(s) >= Len(p) /\ SubSeq(s, 1, Len(p)) = p

\* String.prototype.split with a one-character separator
RECURSIVE Split(_, _)
Split(s, sep) ==
  IF \E i \in 1..Len(s) : s[i] = sep
  THEN LET i == CHOOSE j \in 1..Len(s) : s[j] = sep /\ \A h \in 1..(j - 1) : s[h] # sep
       IN <<SubSeq(s, 1, i - 1)>> \o Split(SubSeq(s, i + 1, Len(s)), sep)
  ELSE <<s>>

\* Array.prototype.join with a one-character separator
RECURSIVE Join(_, _)
Join(cells, sep) ==
  IF cells = <<>> THEN <<>>
  ELSE IF Len(cells) = 1 THEN cells[1]
  ELSE cells[1] \o <<sep>> \o Join(Tail(cells), sep)

\* The < of two strings (code unit by code unit), as Array.prototype.sort
\* without a comparator uses it.
RECURSIVE StringLess(_, _)
StringLess(a, b) ==
  IF b = <<>> THEN FALSE
  ELSE IF a = <<>> THEN TRUE
  ELSE IF Head(a) = Head(b) THEN StringLess(Tail(a), Tail(b))
  ELSE CharCode(Head(a)) < CharCode(Head(b))

(***************************************************************************)
(* Numbers: parseInt(s, 10), parseFloat(s), Number.isFinite.               *)
(***************************************************************************)
PriceScale == 100
RateScale == 100
NaN == [kind |-> "nan", val |-> 0]
Infinity(sign) == [kind |-> "inf", val |-> sign]
Num(v) == [kind |-> "num", val |-> v]
IsFinite(x) == x.kind = "num"

RECURSIVE LeadingDigits(_)
LeadingDigits(s) == IF s # <<>> /\ IsDigit(Head(s)) THEN <<Head(s)>> \o LeadingDigits(Tail(s)) ELSE <<>>
RECURSIVE DigitsValue(_)
DigitsValue(ds) == IF ds = <<>> THEN 0 ELSE 10 * DigitsValue(SubSeq(ds, 1, Len(ds) - 1)) + DigitValue(ds[Len(ds)])

Signed(s) == s # <<>> /\ Head(s) \in {"+", "-"}
SignOf(s) == IF s # <<>> /\ Head(s) = "-" THEN -1 ELSE 1
Unsigned(s) == IF Signed(s) THEN Tail(s) ELSE s

\* parseInt(s, 10): leading white space, a sign, then the longest run of
\* digits; NaN when there is none.  The value is an integer.
ParseInt(s) ==
  LET t == TrimStart(s)
      ds == LeadingDigits(Unsigned(t))
  IN IF ds = <<>> THEN NaN ELSE Num(SignOf(t) * DigitsValue(ds))

\* parseFloat(s): leading white space, a sign, then "Infinity" or the
\* longest decimal literal digits[.digits] or .digits; NaN when there is
\* none.  The value is held in hundredths: the cell texts of the corpora
\* carry at most two fraction digits and no exponent part.
ParseFloat(s) ==
  LET t == TrimStart(s)
      body == Unsigned(t)
      int == LeadingDigits(body)
      rest == SubSeq(body, Len(int) + 1, Len(body))
      frac == IF rest # <<>> /\ Head(rest) = "." THEN LeadingDigits(Tail(rest)) ELSE <<>>
      frac2 == SubSeq(frac \o <<"0", "0">>, 1, 2)
  IN IF StartsWith(body, <<"I", "n", "f", "i", "n", "i", "t", "y">>) THEN Infinity(SignOf(t))
     ELSE IF int = <<>> /\ frac = <<>> THEN NaN
     ELSE Num(SignOf(t) * (DigitsValue(int) * PriceScale + DigitsValue(frac2)))

\* Number.isNaN(new Date(s).getTime()) is false for the date-only form
\* YYYY-MM-DD with a month 01..12 and a day 01..31, and true for the empty
\* string and for the other texts of the corpora.
DateIsValid(s) ==
  /\ Len(s) = 10
  /\ s[5] = "-" /\ s[8] = "-"
  /\ \A i \in {1, 2, 3, 4, 6, 7, 9, 10} : IsDigit(s[i])
  /\ DigitsValue(SubSeq(s, 6, 7)) \in 1..12
  /\ DigitsValue(SubSeq(s, 9, 10)) \in 1..31

(***************************************************************************)
(* Header Indexer.                                                         *)
(***************************************************************************)
ORDER_ID == <<"o", "r", "d", "e", "r", "I", "d">>
CUSTOMER_ID == <<"c", "u", "s", "t", "o", "m", "e", "r", "I", "d">>
CUSTOMER_NAME == <<"c", "u", "s", "t", "o", "m", "e", "r", "N", "a", "m", "e">>
PRODUCT == <<"p", "r", "o", "d", "u", "c", "t">>
UNITS == <<"u", "n", "i", "t", "s">>
UNIT_PRICE == <<"u", "n", "i", "t", "P", "r", "i", "c", "e">>
REGION == <<"r", "e", "g", "i", "o", "n">>
CREATED_AT == <<"c", "r", "e", "a", "t", "e", "d", "A", "t">>

required == <<ORDER_ID, CUSTOMER_ID, CUSTOMER_NAME, PRODUCT, UNITS, UNIT_PRICE, REGION, CREATED_AT>>

\* index[header[i].trim()] = i for i = 0, 1, ...: the last occurrence of a
\* name wins.  The positions are zero-based as in the code.
parseHeaderIndex(headerLine) ==
  LET header == Split(headerLine, ",")
      names == {Trim(header[i]) : i \in 1..Len(header)}
  IN [n \in names |-> (CHOOSE i \in 1..Len(header) :
                          /\ Trim(header[i]) = n
                          /\ \A j \in (i + 1)..Len(header) : Trim(header[j]) # n) - 1]

\* The first required name the index lacks, in the declared order.
validateHeader(index, req) ==
  IF \E i \in 1..Len(req) : req[i] \notin DOMAIN index
  THEN [ok |-> FALSE,
        missing |-> req[CHOOSE i \in 1..Len(req) :
                          /\ req[i] \notin DOMAIN index
                          /\ \A j \in 1..(i - 1) : req[j] \in DOMAIN index]]
  ELSE [ok |-> TRUE, missing |-> <<>>]

\* (parts[i] || "").trim(), parts being zero-based in the code.
getColumn(parts, index, key) ==
  LET i == index[key]
  IN Trim(IF i + 1 <= Len(parts) THEN parts[i + 1] ELSE <<>>)

(***************************************************************************)
(* Row Parser/Sanitizer.                                                   *)
(***************************************************************************)
addWarning(warnings, lineNumber, message, arg) ==
  Append(warnings, [row |-> lineNumber, msg |-> message, arg |-> arg])

WarnIf(cond, warnings, lineNumber, message, arg) ==
  IF cond THEN addWarning(warnings, lineNumber, message, arg) ELSE warnings

\* null, and a returned record (which carries ok to tell it from null).
Null == [ok |-> FALSE]
Rejected(warnings) == [row |-> Null, warnings |-> warnings]

\* Faulty variant: && for ||.
idsMissing_Both(orderId, customerId) == orderId = <<>> /\ customerId = <<>>

\* if (!orderId || !customerId) return null
idsMissing(orderId, customerId) == orderId = <<>> \/ customerId = <<>>

\* Faulty variant: < for <=, so that zero units pass.
unitsInvalid_ZeroAllowed(units) == ~IsFinite(units) \/ units.val < 0
unitsInvalid(units) == ~IsFinite(units) \/ units.val <= 0
unitPriceInvalid(unitPrice) == ~IsFinite(unitPrice) \/ unitPrice.val < 0

\* The result is the returned record or null, with the warnings array as
\* the call leaves it.
parseOrderRow(parts, index, lineNumber, expectedCols, warnings) ==
  IF Len(parts) < expectedCols THEN Rejected(warnings)
  ELSE
    LET orderId == getColumn(parts, index, ORDER_ID)
        customerId == getColumn(parts, index, CUSTOMER_ID)
        customerName == getColumn(parts, index, CUSTOMER_NAME)
        product == getColumn(parts, index, PRODUCT)
        region == ToUpperCase(getColumn(parts, index, REGION))
        createdAt == getColumn(parts, index, CREATED_AT)
        units == ParseInt(getColumn(parts, index, UNITS))
        unitPrice == ParseFloat(getColumn(parts, index, UNIT_PRICE))
        w1 == WarnIf(customerName = <<>>, warnings, lineNumber, "missing customerName for", customerId)
        w2 == WarnIf(product = <<>>, w1, lineNumber, "missing product for order", orderId)
        w3 == WarnIf(region = <<>>, w2, lineNumber, "missing region for order", orderId)
        w4 == WarnIf(unitsInvalid(units), w3, lineNumber, "invalid units; defaulted to 1", <<>>)
        w5 == WarnIf(unitPriceInvalid(unitPrice), w4, lineNumber, "invalid unitPrice; defaulted to 0", <<>>)
        w6 == WarnIf(~DateIsValid(createdAt), w5, lineNumber, "invalid createdAt:", createdAt)
    IN IF idsMissing(orderId, customerId) THEN Rejected(warnings)
       ELSE [warnings |-> w6,
             row |-> [ok |-> TRUE,
                      orderId |-> orderId,
                      customerId |-> customerId,
                      customerName |-> customerName,
                      product |-> product,
                      region |-> region,
                      units |-> IF unitsInvalid(units) THEN 1 ELSE units.val,
                      unitPrice |-> IF unitPriceInvalid(unitPrice) THEN 0 ELSE unitPrice.val,
                      createdAt |-> createdAt]]

(***************************************************************************)
(* Discount Rule Evaluator (rate in hundredths).                           *)
(***************************************************************************)
VIP_PREFIX == <<"V", "I", "P", "-">>
EU == <<"E", "U">>
VipRate == 10
EuRate == 5
BulkRate == 7
BulkUnits == 100
RateCap == 25

Min(a, b) == IF a <= b THEN a ELSE b

\* Faulty variant: the rules chained with else, so only the first that applies counts.
calculateDiscountRate_ElseIf(r) ==
  Min(IF StartsWith(r.customerId, VIP_PREFIX) THEN VipRate
      ELSE IF r.region = EU THEN EuRate
      ELSE IF r.units >= BulkUnits THEN BulkRate
      ELSE 0,
      RateCap)

calculateDiscountRate(r) ==
  Min((IF StartsWith(r.customerId, VIP_PREFIX) THEN VipRate ELSE 0)
      + (IF r.region = EU THEN EuRate ELSE 0)
      + (IF r.units >= BulkUnits THEN BulkRate ELSE 0),
      RateCap)

\* Faulty variant: the discount is not subtracted from the net.
lineAmounts_NetIsGross(r) ==
  LET discountRate == calculateDiscountRate(r)
      lineGross == r.units * r.unitPrice * RateScale
      lineDiscount == r.units * r.unitPrice * discountRate
  IN [discountRate |-> discountRate, lineGross |-> lineGross,
      lineDiscount |-> lineDiscount, lineNet |-> lineGross]

\* discountRate = calculateDiscountRate(row), lineGross = units * unitPrice,
\* lineDiscount = lineGross * discountRate, lineNet = lineGross - lineDiscount,
\* the amounts in ten-thousandths.
lineAmounts(r) ==
  LET discountRate == calculateDiscountRate(r)
      lineGross == r.units * r.unitPrice * RateScale
      lineDiscount == r.units * r.unitPrice * discountRate
  IN [discountRate |-> discountRate, lineGross |-> lineGross,
      lineDiscount |-> lineDiscount, lineNet |-> lineGross - lineDiscount]

(***************************************************************************)
(* Aggregator.                                                             *)
(***************************************************************************)
createAggregates ==
  [totalOrders |-> 0, totalUnits |-> 0, gross |-> 0, net |-> 0, discounted |-> 0,
   badRows |-> 0, byRegion |-> <<>>, byCustomer |-> <<>>, warnings |-> <<>>]

HasKey(map, key) == \E i \in 1..Len(map) : map[i].key = key
KeyIndex(map, key) == CHOOSE i \in 1..Len(map) : map[i].key = key

\* Faulty variant: a new bucket starts with one order.
ensureBucket_StartsAtOne(map, key) ==
  IF HasKey(map, key) THEN map
  ELSE Append(map, [key |-> key, orders |-> 1, units |-> 0, gross |-> 0, net |-> 0])

\* ensureRegionBucket / ensureCustomerBucket
ensureBucket(map, key) ==
  IF HasKey(map, key) THEN map
  ELSE Append(map, [key |-> key, orders |-> 0, units |-> 0, gross |-> 0, net |-> 0])

addToBucket(map, key, r, amts) ==
  LET m == ensureBucket(map, key)
      i == KeyIndex(m, key)
  IN [m EXCEPT ![i] = [key |-> key,
                       orders |-> m[i].orders + 1,
                       units |-> m[i].units + r.units,
                       gross |-> m[i].gross + amts.lineGross,
                       net |-> m[i].net + amts.lineNet]]

customerKeyOf(r) == r.customerId \o <<"|">> \o r.customerName

applyRowToAggregates(a, r, amts) ==
  [a EXCEPT !.totalOrders = @ + 1,
            !.totalUnits = @ + r.units,
            !.gross = @ + amts.lineGross,
            !.net = @ + amts.lineNet,
            !.discounted = @ + amts.lineDiscount,
            !.byRegion = addToBucket(@, r.region, r, amts),
            !.byCustomer = addToBucket(@, customerKeyOf(r), r, amts)]

\* Faulty variant: the rejected row is skipped without being counted.
countBadRow_Forget(a) == a

\* if (!row) { agg.badRows++; continue; }
countBadRow(a) == [a EXCEPT !.badRows = @ + 1]

(***************************************************************************)
(* Report Formatter.                                                       *)
(***************************************************************************)
TopCustomers == 10
ShownWarnings == 50

\* Array.prototype.sort is stable: an element comes before another when it
\* compares smaller, or compares equal and stood before it.  less[i, j]
\* tells whether the comparator puts s[i] before s[j].
StableSort(s, less) ==
  LET Before(j, i) == less[j, i] \/ (~less[i, j] /\ j < i)
      rank(i) == 1 + Cardinality({j \in 1..Len(s) : Before(j, i)})
  IN [r \in 1..Len(s) |-> s[CHOOSE i \in 1..Len(s) : rank(i) = r]]

\* Object.keys(agg.byCustomer).map(split "|", spread).sort((a, b) => b.net - a.net)
buildSortedCustomers(a) ==
  LET entry(b) == LET p == Split(b.key, "|")
                  IN [id |-> p[1], name |-> p[2], orders |-> b.orders,
                      units |-> b.units, gross |-> b.gross, net |-> b.net]
      customers == [i \in 1..Len(a.byCustomer) |-> entry(a.byCustomer[i])]
      NetDescending == [i \in 1..Len(customers), j \in 1..Len(customers) |->
                          customers[j].net - customers[i].net < 0]
  IN StableSort(customers, NetDescending)

\* Faulty variant: the keys in insertion order, the sort() forgotten.
buildSortedRegions_Unsorted(a) == [i \in 1..Len(a.byRegion) |-> a.byRegion[i].key]

\* Object.keys(agg.byRegion).sort()
buildSortedRegions(a) ==
  LET keys == [i \in 1..Len(a.byRegion) |-> a.byRegion[i].key]
  IN StableSort(keys, [i \in 1..Len(keys), j \in 1..Len(keys) |-> StringLess(keys[i], keys[j])])

\* Number.prototype.toFixed(2) of a non-negative amount held in
\* ten-thousandths: the amount in hundredths, halves rounded up.
toFixed2(x) == (x + 50) \div 100

\* String(n).padStart(2, "0")
RECURSIVE DecimalString(_)
DecimalString(n) == IF n < 10 THEN <<Digits[n + 1]>> ELSE DecimalString(n \div 10) \o <<Digits[(n % 10) + 1]>>
padStart2(n) == IF Len(DecimalString(n)) < 2 THEN <<"0">> \o DecimalString(n) ELSE DecimalString(n)

UNKNOWN == <<"(", "u", "n", "k", "n", "o", "w", "n", ")">>

Text(t) == [kind |-> "text", text |-> t]

\* Faulty variant: >= for >, so that exactly fifty warnings get a "(+0 more)" line.
warningsBlock_MoreAtFifty(warnings) ==
  IF Len(warnings) = 0 THEN <<[kind |-> "none"]>>
  ELSE [w \in 1..Min(ShownWarnings, Len(warnings)) |-> [kind |-> "warning", warning |-> warnings[w]]]
       \o (IF Len(warnings) >= ShownWarnings
           THEN <<[kind |-> "more", count |-> Len(warnings) - ShownWarnings]>>
           ELSE <<>>)

\* The lines pushed under "Warnings".
warningsBlock(warnings) ==
  IF Len(warnings) = 0 THEN <<[kind |-> "none"]>>
  ELSE [w \in 1..Min(ShownWarnings, Len(warnings)) |-> [kind |-> "warning", warning |-> warnings[w]]]
       \o (IF Len(warnings) > ShownWarnings
           THEN <<[kind |-> "more", count |-> Len(warnings) - ShownWarnings]>>
           ELSE <<>>)

formatReportLines(a) ==
  LET regions == buildSortedRegions(a)
      customers == buildSortedCustomers(a)
      regionLine(r) == LET s == a.byRegion[KeyIndex(a.byRegion, regions[r])]
                       IN [kind |-> "region", reg |-> regions[r], orders |-> s.orders,
                           units |-> s.units, gross |-> toFixed2(s.gross), net |-> toFixed2(s.net)]
      customerLine(c) == LET x == customers[c]
                         IN [kind |-> "customer", rank |-> padStart2(c),
                             name |-> IF x.name = <<>> THEN UNKNOWN ELSE x.name,
                             id |-> x.id, orders |-> x.orders, units |-> x.units,
                             net |-> toFixed2(x.net)]
  IN <<Text("EOD Sales Report"), Text("==============="), Text(""),
       Text("Summary"), Text("-------"),
       [kind |-> "orders", value |-> a.totalOrders],
       [kind |-> "units", value |-> a.totalUnits],
       [kind |-> "gross", value |-> toFixed2(a.gross)],
       [kind |-> "discounts", value |-> toFixed2(a.discounted)],
       [kind |-> "net", value |-> toFixed2(a.net)],
       [kind |-> "badRows", value |-> a.badRows],
       Text(""), Text("By Region"), Text("---------")>>
     \o [r \in 1..Len(regions) |-> regionLine(r)]
     \o <<Text(""), Text("Top Customers (by net)"), Text("----------------------")>>
     \o [c \in 1..Min(TopCustomers, Len(customers)) |-> customerLine(c)]
     \o <<Text(""), Text("Warnings"), Text("--------")>>
     \o warningsBlock(a.warnings)

(***************************************************************************)
(* Input files.                                                            *)
(***************************************************************************)
\* raw.split(/\r?\n/).filter((x) => x.trim() !== ""), the file being the
\* sequence of its lines.
readNonEmptyLines(f) == SelectSeq(f, LAMBDA x : Trim(x) # <<>>)

Line(cells) == Join(cells, ",")
SeqsUpTo(S, n) == UNION {[1..m -> S] : m \in 0..n}

DATE_OK == <<"2", "0", "2", "4", "-", "0", "1", "-", "0", "1">>
DATE_BAD == <<"2", "0", "2", "4", "-", "1", "3", "-", "0", "1">>
VIP9 == <<"V", "I", "P", "-", "9">>
EMPTY == <<>>

H_STD == Line(required)
H_ALT == Line(<<<<" ">> \o CUSTOMER_ID \o <<" ">>, ORDER_ID, CUSTOMER_NAME, PRODUCT, UNITS,
                UNIT_PRICE, REGION, CREATED_AT, <<"n", "o", "t", "e">>>>)
H_BAD == Line(<<ORDER_ID, CUSTOMER_ID, CUSTOMER_NAME, PRODUCT, UNITS, UNIT_PRICE, CREATED_AT>>)

BLANK_EMPTY == <<>>
BLANK_SPACES == <<" ", "\t">>

\* Validation corpus.
V_CLEAN == Line(<<<<"A", "1">>, <<"C", "1">>, <<"A", "l">>, <<"W">>, <<"1", "0">>, <<"2", ".", "5">>, <<"e", "u">>, DATE_OK>>)
V_SHORT == Line(<<<<"A", "2">>, EMPTY, <<"x">>>>)
V_NOORDER == Line(<<<<" ">>, <<"C", "1">>, EMPTY, EMPTY, <<"a", "b", "c">>, <<"-", "3">>, EMPTY, <<"x">>>>)
V_NOCUST == Line(<<<<"A", "3">>, <<" ">>, EMPTY, EMPTY, <<"a", "b", "c">>, <<"-", "3">>, EMPTY, <<"x">>>>)
V_DEFAULTS == Line(<<<<"A", "4">>, <<"C", "2">>, EMPTY, EMPTY, <<"a", "b", "c">>, <<"-", "3">>, EMPTY, <<"x">>>>)
V_ZERO == Line(<<<<"A", "5">>, <<"C", "2">>, <<"B", "o">>, <<"W">>, <<"0">>, <<"I", "n", "f", "i", "n", "i", "t", "y">>, <<"U", "S">>, DATE_BAD>>)
V_PREFIX == Line(<<<<"A", "6">>, <<"C", "1">>, <<"A", "l">>, <<"W">>, <<"7", "u", "p">>, <<"1", ".", "5", "x">>, <<"U", "S">>, DATE_OK, <<"e", "x", "t", "r", "a">>>>)
ValidationRows == {V_CLEAN, V_SHORT, V_NOORDER, V_NOCUST, V_DEFAULTS, V_ZERO, V_PREFIX, BLANK_SPACES}

\* Discount corpus: every combination of the three rules, and their edges.
D_NONE == Line(<<<<"B", "1">>, <<"C", "1">>, <<"A", "l">>, <<"W">>, <<"9", "9">>, <<"1">>, <<"U", "S">>, DATE_OK>>)
D_BULK == Line(<<<<"B", "2">>, <<"C", "1">>, <<"A", "l">>, <<"W">>, <<"1", "0", "0">>, <<"1">>, <<"U", "S">>, DATE_OK>>)
D_VIP == Line(<<<<"B", "3">>, VIP9, <<"V", "i">>, <<"W">>, <<"1", "0">>, <<"2">>, <<"U", "S">>, DATE_OK>>)
D_EUBULK == Line(<<<<"B", "4">>, <<"C", "1">>, <<"A", "l">>, <<"W">>, <<"1", "5", "0">>, <<"1">>, <<"E", "u">>, DATE_OK>>)
D_VIPEU == Line(<<<<"B", "5">>, VIP9, <<"V", "i">>, <<"W">>, <<"1">>, <<"2">>, <<"E", "U">>, DATE_OK>>)
D_VIPBULK == Line(<<<<"B", "6">>, VIP9, <<"V", "i">>, <<"W">>, <<"1", "5", "0">>, <<"1">>, <<"U", "S">>, DATE_OK>>)
D_ALL == Line(<<<<"B", "7">>, VIP9, <<"V", "i">>, <<"W">>, <<"1", "0", "0">>, <<"2">>, <<"E", "U">>, DATE_OK>>)
D_LOWVIP == Line(<<<<"B", "8">>, <<"v", "i", "p", "-", "9">>, <<"V", "i">>, <<"W">>, <<"-", "1", "5", "0">>, <<"1">>, <<"E", "U", "R">>, DATE_OK>>)
D_ABCEU == Line(<<<<"B", "9">>, <<"C", "1">>, <<"A", "l">>, <<"W">>, <<"a", "b", "c">>, <<".", "x">>, <<"E", "U">>, DATE_OK>>)
DiscountRows == {V_CLEAN, D_NONE, D_BULK, D_VIP, D_EUBULK, D_VIPEU, D_VIPBULK, D_ALL, D_LOWVIP, D_ABCEU}

\* Customer corpus: one id under several names, "|" inside a field, equal nets.
K_C1AL == Line(<<<<"A", "1">>, <<"C", "1">>, <<"A", "l">>, <<"W">>, <<"1">>, <<"1">>, <<"U", "S">>, DATE_OK>>)
K_C1NONE == Line(<<<<"A", "2">>, <<"C", "1">>, EMPTY, <<"W">>, <<"1">>, <<"1">>, <<"D", "E">>, DATE_OK>>)
K_C1BO == Line(<<<<"A", "3">>, <<"C", "1">>, <<"B", "o">>, <<"W">>, <<"2">>, <<"1">>, <<"U", "S">>, DATE_OK>>)
K_PIPE1 == Line(<<<<"A", "4">>, <<"a", "|", "b">>, <<"c">>, <<"W">>, <<"1">>, <<"1">>, <<"U", "S">>, DATE_OK>>)
K_PIPE2 == Line(<<<<"A", "5">>, <<"a">>, <<"b", "|", "c">>, <<"W">>, <<"3">>, <<"1">>, <<"u", "s">>, DATE_OK>>)
K_C2 == Line(<<<<"A", "6">>, <<"C", "2">>, <<"C", "y">>, <<"W">>, <<"1">>, <<"2">>, EMPTY, DATE_OK>>)
K_VIP == Line(<<<<"A", "7">>, VIP9, <<"V", "i">>, <<"W">>, <<"1">>, <<"3">>, <<"E", "U">>, DATE_OK>>)
CustomerRows == {K_C1AL, K_C1NONE, K_C1BO, K_PIPE1, K_PIPE2, K_C2, K_VIP, BLANK_EMPTY}

\* Rows under the nine-column header H_ALT.
X_OK == Line(<<<<"C", "1">>, <<"A", "1">>, <<"A", "l">>, <<"W">>, <<"1", "0">>, <<"2", ".", "5">>, <<"e", "u">>, DATE_OK, <<"n">>>>)
X_NOORDER == Line(<<<<"C", "1">>, <<" ">>, EMPTY, EMPTY, <<"a", "b", "c">>, <<"-", "3">>, EMPTY, <<"x">>, EMPTY>>)
AltRows == {X_OK, X_NOORDER, V_CLEAN}

\* A corpus: the blank lines that may precede the header, the header, the
\* lines a body is made of and the longest body.
Corpora ==
  {[lead |-> {<<>>, <<BLANK_EMPTY>>}, header |-> H_STD, rows |-> ValidationRows, len |-> MaxRows],
   [lead |-> {<<>>}, header |-> H_STD, rows |-> DiscountRows, len |-> MaxRows - 1],
   [lead |-> {<<>>}, header |-> H_STD, rows |-> CustomerRows, len |-> MaxRows],
   [lead |-> {<<>>, <<BLANK_SPACES>>}, header |-> H_ALT, rows |-> AltRows, len |-> MaxRows],
   [lead |-> {<<>>}, header |-> H_BAD, rows |-> {V_CLEAN}, len |-> 1]}

Files == UNION {{l \o <<c.header>> \o body : l \in c.lead, body \in SeqsUpTo(c.rows, c.len)} : c \in Corpora}

\* The long corpus: the i-th row is for a customer of its own, either with
\* a price of 1, 2 or 3, a region of US or DE and (from the tenth row on) an
\* uninterpretable date, or with six defaulted or missing fields.
LongId(i) == <<"K", Upper[i]>>
LongClean(i) == Line(<<<<"A">>, LongId(i), <<"N">>, <<"W">>, <<"1">>, <<Digits[(i % 3) + 2]>>,
                       IF i % 2 = 0 THEN <<"D", "E">> ELSE <<"U", "S">>,
                       IF i >= 10 THEN DATE_BAD ELSE DATE_OK>>)
LongWarn(i) == Line(<<<<"A">>, LongId(i), EMPTY, EMPTY, <<"a", "b", "c">>, <<"-", "3">>, EMPTY, <<"x">>>>)
RECURSIVE LongBodiesOf(_)
LongBodiesOf(m) ==
  IF m = 0 THEN {<<>>}
  ELSE {Append(b, x) : b \in LongBodiesOf(m - 1), x \in {LongClean(m), LongWarn(m)}}
LongBodies == UNION {LongBodiesOf(m) : m \in 0..MaxLongRows}
LongFiles == {<<H_STD>> \o b : b \in LongBodies} \cup {<<H_BAD, V_CLEAN>>}

(***************************************************************************)
(* run(): the state machine.                                               *)
(***************************************************************************)
Undefined == <<>>

InitRun ==
  /\ pc = "read"
  /\ lines = Undefined
  /\ idx = Undefined
  /\ expectedColumns = 0
  /\ k = 0
  /\ row = Null
  /\ amounts = Undefined
  /\ agg = Undefined
  /\ reportLines = Undefined
  /\ exitCode = -1

Init == file \in Files /\ InitRun
InitLong == file \in LongFiles /\ InitRun

\* const lines = readNonEmptyLines(absCsv)
ReadLines ==
  /\ pc = "read"
  /\ lines' = readNonEmptyLines(file)
  /\ pc' = "lines"
  /\ UNCHANGED <<file, idx, expectedColumns, k, row, amounts, agg, reportLines, exitCode>>

\* if (lines.length < 2) { "no data"; return 1 }
NoData ==
  /\ pc = "lines"
  /\ Len(lines) < 2
  /\ exitCode' = 1
  /\ pc' = "exit"
  /\ UNCHANGED <<file, lines, idx, expectedColumns, k, row, amounts, agg, reportLines>>

\* const idx = parseHeaderIndex(lines[0])
IndexHeader ==
  /\ pc = "lines"
  /\ Len(lines) >= 2
  /\ idx' = parseHeaderIndex(lines[1])
  /\ pc' = "header"
  /\ UNCHANGED <<file, lines, expectedColumns, k, row, amounts, agg, reportLines, exitCode>>

\* if (!headerCheck.ok) { "bad header: missing ..."; return 1 }
BadHeader ==
  /\ pc = "header"
  /\ ~validateHeader(idx, required).ok
  /\ exitCode' = 1
  /\ pc' = "exit"
  /\ UNCHANGED <<file, lines, idx, expectedColumns, k, row, amounts, agg, reportLines>>

\* const agg = createAggregates(); const expectedColumns = ...; k = 1
StartFold ==
  /\ pc = "header"
  /\ validateHeader(idx, required).ok
  /\ agg' = createAggregates
  /\ expectedColumns' = Len(Split(lines[1], ","))
  /\ k' = 1
  /\ pc' = "loop"
  /\ UNCHANGED <<file, lines, idx, row, amounts, reportLines, exitCode>>

lineNumberOf(j) == j + 1

\* One iteration of the main loop on lines[k] (lines[k + 1] here, the
\* sequence being one-based): parseOrderRow, then either badRows++ or the
\* line amounts and applyRowToAggregates.
ProcessLine ==
  /\ pc = "loop"
  /\ k < Len(lines)
  /\ LET parts == Split(lines[k + 1], ",")
         res == parseOrderRow(parts, idx, lineNumberOf(k), expectedColumns, agg.warnings)
     IN /\ row' = res.row
        /\ IF ~res.row.ok
           THEN /\ agg' = countBadRow(agg)
                /\ amounts' = Undefined
           ELSE /\ amounts' = lineAmounts(res.row)
                /\ agg' = applyRowToAggregates([agg EXCEPT !.warnings = res.warnings],
                                               res.row, lineAmounts(res.row))
  /\ k' = k + 1
  /\ UNCHANGED <<file, pc, lines, idx, expectedColumns, reportLines, exitCode>>

\* const reportLines = formatReportLines(agg); writeOutputs(...); return 0
Finish ==
  /\ pc = "loop"
  /\ k >= Len(lines)
  /\ reportLines' = formatReportLines(agg)
  /\ exitCode' = 0
  /\ pc' = "done"
  /\ UNCHANGED <<file, lines, idx, expectedColumns, k, row, amounts, agg>>

Next == ReadLines \/ NoData \/ IndexHeader \/ BadHeader \/ StartFold \/ ProcessLine \/ Finish

Spec == Init /\ [][Next]_vars
SpecLong == InitLong /\ [][Next]_vars

(***************************************************************************)
(* Properties.  The raw text of the file is read here without the          *)
(* program's own helpers: the cell of line j under a header name, whether  *)
(* the line has to be rejected, and where it stands in the file.           *)
(***************************************************************************)
InFold == pc \in {"loop", "done"}

NonBlank(f) == {i \in 1..Len(f) : \E j \in 1..Len(f[i]) : f[i][j] \notin WhiteSpace}
DataLineCount == Cardinality(NonBlank(file)) - 1

\* The trimmed cells of line j under the required header names (the last
\* column of a name counts), and the numbers of cells of line and header.
RawRow(j) ==
  LET header == Split(lines[1], ",")
      names == [p \in 1..Len(header) |-> Trim(header[p])]
      cells == Split(lines[j], ",")
      position(name) == CHOOSE p \in 1..Len(names) :
                          names[p] = name /\ \A q \in (p + 1)..Len(names) : names[q] # name
      cell(name) == IF position(name) <= Len(cells) THEN Trim(cells[position(name)]) ELSE <<>>
  IN [orderId |-> cell(ORDER_ID), customerId |-> cell(CUSTOMER_ID),
      customerName |-> cell(CUSTOMER_NAME), units |-> cell(UNITS),
      unitPrice |-> cell(UNIT_PRICE), region |-> cell(REGION),
      cells |-> Len(cells), headerCells |-> Len(header)]
RejectRaw(raw) ==
  \/ raw.cells < raw.headerCells
  \/ raw.orderId = <<>>
  \/ raw.customerId = <<>>
ShouldReject(j) == RejectRaw(RawRow(j))

\* The warnings recorded for the line that was processed last, which is
\* lines[k] once k has been incremented and carries the line number k.
LastWarnings == SelectSeq(agg.warnings, LAMBDA w : w.row = k)
LastHasWarning(m) == \E i \in 1..Len(LastWarnings) : LastWarnings[i].msg = m

RECURSIVE SumOrders(_)
SumOrders(map) == IF map = <<>> THEN 0 ELSE Head(map).orders + SumOrders(Tail(map))

\* C1: after the loop has consumed k data lines totalOrders + badRows = k,
\* every data line having incremented exactly one of the two counters by
\* exactly 1; at the end of the run the sum is the number of data lines.
C1_OrdersPlusBadRows ==
  /\ [](InFold => agg.totalOrders + agg.badRows = k - 1)
  /\ [](pc = "done" => agg.totalOrders + agg.badRows = DataLineCount)
  /\ [][pc = "loop" /\ k' = k + 1 =>
          \/ agg'.totalOrders = agg.totalOrders + 1 /\ agg'.badRows = agg.badRows
          \/ agg'.totalOrders = agg.totalOrders /\ agg'.badRows = agg.badRows + 1]_vars

C1_Witness ==
  pc = "done" /\ DataLineCount = 3 /\ agg.totalOrders = 2 /\ agg.badRows = 1

\* C2: between row steps the orders of the region buckets sum to
\* totalOrders, and so do the orders of the customer buckets.
C2_BucketOrdersSum ==
  InFold => /\ SumOrders(agg.byRegion) = agg.totalOrders
            /\ SumOrders(agg.byCustomer) = agg.totalOrders

C2_Witness ==
  /\ pc = "loop" /\ agg.totalOrders = 3
  /\ Len(agg.byRegion) = 2 /\ Len(agg.byCustomer) = 2

\* The rate the three rules give for the raw cells of a line.
SanitisedUnits(raw) ==
  LET u == ParseInt(raw.units)
  IN IF u.kind = "num" /\ u.val > 0 THEN u.val ELSE 1
ExpectedRate(raw) ==
  (IF StartsWith(raw.customerId, <<"V", "I", "P", "-">>) THEN 10 ELSE 0)
  + (IF ToUpperCase(raw.region) = <<"E", "U">> THEN 5 ELSE 0)
  + (IF SanitisedUnits(raw) >= 100 THEN 7 ELSE 0)
\* C3: the rate of an accepted record is the sum of the contributions of
\* the rules that apply (10 for a customerId starting with VIP-, 5 for a
\* region that upper-cases to EU, 7 for sanitised units >= 100), hence one
\* of eight values within [0, 25] hundredths.
C3_RateIsSumOfRules ==
  (InFold /\ row.ok) =>
     /\ amounts.discountRate = ExpectedRate(RawRow(k))
     /\ amounts.discountRate \in {0, 5, 7, 10, 12, 15, 17, 22}
     /\ 0 <= amounts.discountRate /\ amounts.discountRate <= 25

C3_Witness ==
  /\ pc = "loop" /\ k = 3 /\ row.ok
  /\ lines[2] = D_ABCEU /\ lines[3] = D_VIPBULK
  /\ amounts.discountRate = 17

\* C4: a line that has fewer columns than the header, or an empty orderId
\* or customerId, adds 1 to badRows and changes nothing else of the
\* aggregates (no warning either); the loop goes on and the run ends with
\* exit code 0.
C4_RejectionOnlyCounts ==
  /\ [][(pc = "loop" /\ k' = k + 1 /\ ShouldReject(k + 1)) =>
          /\ agg' = [agg EXCEPT !.badRows = @ + 1]
          /\ pc' = "loop" /\ exitCode' = exitCode]_vars
  /\ [](pc = "done" => exitCode = 0)

C4_Witness ==
  /\ pc = "done" /\ exitCode = 0 /\ Len(lines) = 4
  /\ lines[2] = V_DEFAULTS /\ lines[3] = V_NOORDER /\ lines[4] = V_SHORT
  /\ agg.badRows = 2 /\ Len(agg.warnings) = 6

\* C5: an accepted record has non-empty ids, units >= 1 and unitPrice >= 0;
\* units (unitPrice) is defaulted to 1 (0), with its warning, exactly when
\* the parsed value is not finite or is <= 0 (< 0); and a line is rejected
\* for too few columns or an empty id only.
C5_AcceptedRowIsSanitised ==
  (InFold /\ k >= 2) =>
     LET raw == RawRow(k)
     IN
     /\ row.ok <=> ~RejectRaw(raw)
     /\ row.ok =>
          LET u == ParseInt(raw.units)
              p == ParseFloat(raw.unitPrice)
              badUnits == u.kind # "num" \/ u.val <= 0
              badPrice == p.kind # "num" \/ p.val < 0
          IN /\ row.orderId # <<>> /\ row.customerId # <<>>
             /\ row.units >= 1 /\ row.unitPrice >= 0
             /\ row.units = (IF badUnits THEN 1 ELSE u.val)
             /\ row.unitPrice = (IF badPrice THEN 0 ELSE p.val)
             /\ badUnits <=> LastHasWarning("invalid units; defaulted to 1")
             /\ badPrice <=> LastHasWarning("invalid unitPrice; defaulted to 0")

C5_Witness ==
  /\ pc = "loop" /\ k = 3 /\ row.ok
  /\ lines[2] = V_ZERO /\ lines[3] = V_DEFAULTS
  /\ row.units = 1 /\ row.unitPrice = 0
  /\ Len(LastWarnings) = 6

\* C8: in exact arithmetic gross = net + discounted and
\* 0 <= discounted <= gross / 4 between row steps, every accepted row
\* contributing lineGross = units * unitPrice, lineDiscount = lineGross *
\* rate and lineNet = lineGross - lineDiscount; and no counter decreases.
C8_GrossIsNetPlusDiscount ==
  /\ [](InFold => /\ agg.gross = agg.net + agg.discounted
                  /\ 0 <= agg.discounted /\ 4 * agg.discounted <= agg.gross)
  /\ []((InFold /\ row.ok) =>
          /\ amounts.lineGross = row.units * row.unitPrice * 100
          /\ amounts.lineDiscount * 100 = amounts.lineGross * amounts.discountRate
          /\ amounts.lineNet = amounts.lineGross - amounts.lineDiscount
          /\ amounts.lineGross = amounts.lineNet + amounts.lineDiscount
          /\ 0 <= amounts.lineDiscount /\ 4 * amounts.lineDiscount <= amounts.lineGross)
  /\ [][(InFold /\ pc' \in {"loop", "done"}) =>
          /\ agg'.totalOrders >= agg.totalOrders /\ agg'.totalUnits >= agg.totalUnits
          /\ agg'.gross >= agg.gross /\ agg'.net >= agg.net
          /\ agg'.discounted >= agg.discounted /\ agg'.badRows >= agg.badRows]_vars

C8_Witness ==
  /\ pc = "done" /\ agg.totalOrders = 2 /\ agg.badRows = 1
  /\ agg.discounted > 0 /\ agg.net > 0 /\ row.ok /\ amounts.lineDiscount > 0

\* The (customerId, customerName) pairs of the accepted lines so far.
AcceptedPairs ==
  LET raw == [j \in 2..k |-> RawRow(j)]
  IN {<<raw[j].customerId, raw[j].customerName>> : j \in {i \in 2..k : ~RejectRaw(raw[i])}}
CustomerLines == SelectSeq(reportLines, LAMBDA l : l.kind = "customer")
\* C6: a customer bucket stands for exactly one (customerId, customerName)
\* pair, so there are as many buckets as distinct pairs among the accepted
\* rows, and every Top Customers line shows the id and the name (or
\* "(unknown)") of such a pair.
C6_BucketPerCustomerPair ==
  /\ InFold => Len(agg.byCustomer) = Cardinality(AcceptedPairs)
  /\ pc = "done" =>
       \A c \in 1..Len(CustomerLines) :
         \E pr \in AcceptedPairs :
           /\ CustomerLines[c].id = pr[1]
           /\ CustomerLines[c].name = (IF pr[2] = <<>> THEN UNKNOWN ELSE pr[2])

\* The position in the file of its j-th non-blank line.
FilePosition(j) ==
  CHOOSE i \in NonBlank(file) : Cardinality({h \in NonBlank(file) : h <= i}) = j
\* C7: the line number of every warning is the one-based position, in the
\* original file, of the line that caused it.
C7_LineNumberIsFilePosition ==
  [][(pc = "loop" /\ k' = k + 1) =>
       \A i \in (Len(agg.warnings) + 1)..Len(agg'.warnings) :
         agg'.warnings[i].row = FilePosition(k + 1)]_vars

\* The report's region lines, and the bucket a customer line stands for.
RegionLines == SelectSeq(reportLines, LAMBDA l : l.kind = "region")
BucketOfLine(l) ==
  CHOOSE i \in 1..Len(agg.byCustomer) :
    agg.byCustomer[i].key = l.id \o <<"|">> \o (IF l.name = UNKNOWN THEN <<>> ELSE l.name)
ComesBefore(i, j) ==
  \/ agg.byCustomer[i].net > agg.byCustomer[j].net
  \/ agg.byCustomer[i].net = agg.byCustomer[j].net /\ i < j
\* C9: By Region lists every region key once, in ascending order; Top
\* Customers lists min(10, buckets) customers by net descending, equal nets
\* in the order their buckets were created, ranked 01, 02, ...; and no
\* bucket left out comes before a listed one.
C9_ReportOrder ==
  pc = "done" =>
    LET listed == {BucketOfLine(CustomerLines[c]) : c \in 1..Len(CustomerLines)}
    IN /\ Len(RegionLines) = Len(agg.byRegion)
       /\ {RegionLines[i].reg : i \in 1..Len(RegionLines)} = {agg.byRegion[i].key : i \in 1..Len(agg.byRegion)}
       /\ \A i \in 1..(Len(RegionLines) - 1) : StringLess(RegionLines[i].reg, RegionLines[i + 1].reg)
       /\ Len(CustomerLines) = (IF Len(agg.byCustomer) < 10 THEN Len(agg.byCustomer) ELSE 10)
       /\ \A c \in 1..Len(CustomerLines) :
            /\ CustomerLines[c].rank = (IF c < 10 THEN <<"0", Digits[c + 1]>> ELSE <<"1", "0">>)
            /\ \E i \in 1..Len(agg.byCustomer) :
                 agg.byCustomer[i].key = CustomerLines[c].id \o <<"|">>
                    \o (IF CustomerLines[c].name = UNKNOWN THEN <<>> ELSE CustomerLines[c].name)
       /\ \A c \in 1..(Len(CustomerLines) - 1) :
            ComesBefore(BucketOfLine(CustomerLines[c]), BucketOfLine(CustomerLines[c + 1]))
       /\ \A x \in (1..Len(agg.byCustomer)) \ listed : \A i \in listed : ComesBefore(i, x)

C9_Witness ==
  /\ pc = "done"
  /\ Len(agg.byCustomer) = 11 /\ Len(CustomerLines) = 10
  /\ Len(agg.byRegion) = 3 /\ agg.byRegion[1].key = <<"U", "S">>
  /\ \E i, j \in 1..11 : i < j /\ agg.byCustomer[i].net = agg.byCustomer[j].net
                              /\ agg.byCustomer[j].net > agg.byCustomer[1].net

\* The warning messages in the order parseOrderRow emits them.
WarningKinds == <<"missing customerName for", "missing product for order", "missing region for order",
                  "invalid units; defaulted to 1", "invalid unitPrice; defaulted to 0", "invalid createdAt:">>
KindOrder(m) == CHOOSE i \in 1..Len(WarningKinds) : WarningKinds[i] = m
IsPrefix(s, t) == Len(s) <= Len(t) /\ \A i \in 1..Len(s) : s[i] = t[i]
KindsOfTail(n) == [i \in 1..n |-> reportLines[Len(reportLines) - n + i].kind]
\* C10: warnings are only ever appended, in emission order (rows in file
\* order, the six kinds in their fixed order within a row); the Warnings
\* block shows the first min(50, n) of them in that order, then one
\* "(+{n-50} more)" line exactly when n > 50, and is the single line
\* "(none)" exactly when n = 0.
C10_WarningsBlock ==
  /\ [][(InFold /\ pc' \in {"loop", "done"}) => IsPrefix(agg.warnings, agg'.warnings)]_vars
  /\ [](InFold =>
          \A i \in 1..(Len(agg.warnings) - 1) :
            \/ agg.warnings[i].row < agg.warnings[i + 1].row
            \/ /\ agg.warnings[i].row = agg.warnings[i + 1].row
               /\ KindOrder(agg.warnings[i].msg) < KindOrder(agg.warnings[i + 1].msg))
  /\ [](pc = "done" =>
          LET n == Len(agg.warnings)
              shown == IF n < 50 THEN n ELSE 50
              block == (IF n = 0 THEN <<"none">> ELSE [i \in 1..shown |-> "warning"])
                       \o (IF n > 50 THEN <<"more">> ELSE <<>>)
              at(i) == reportLines[Len(reportLines) - Len(block) + i]
          IN /\ KindsOfTail(Len(block) + 1) = <<"text">> \o block
             /\ reportLines[Len(reportLines) - Len(block)].text = "--------"
             /\ \A i \in 1..shown : at(i).warning = agg.warnings[i]
             /\ n > 50 => at(Len(block)).count = n - 50)

C10_Witness ==
  /\ pc = "done" /\ Len(agg.warnings) = 55
  /\ reportLines[Len(reportLines)].kind = "more"

====
